---- MODULE Spec2Model ----
(***************************************************************************)
(* Model of the giftoff gift-card extraction pipeline (src/src/index.ts). *)
(*                                                                         *)
(* A JavaScript string is a sequence of tokens, the empty string is <<>>,  *)
(* null and undefined are two distinguished values.  A DOM element is a    *)
(* record [has, text]; a link element is a record [has, href].  A document *)
(* is a record [pagination, cards, code]: the second-to-last pagination    *)
(* item, the .dashboard__card containers in document order, and the        *)
(* #voucher__code element.  The web site is a function from URL to         *)
(* document, chosen in Init and never changed.                             *)
(***************************************************************************)
EXTENDS Integers, Sequences, FiniteSets, TLC

VARIABLES
  site,          \* URL -> document served there (the external web site)
  pc,            \* position of the single thread of control
  walk,          \* 1: dashboard walk, 2: archived walk
  pageNumber,    \* fetchCardInfos: const pageNumber
  i,             \* fetchCardInfos: loop variable
  cardInfos,     \* fetchCardInfos: let cardInfos
  walked,        \* results of the fetchCardInfos calls that returned
  allCardInfos,  \* const allCardInfos
  cardIdx,       \* position of the for..of loop in allCardInfos
  cardDoc,       \* per-card loop: const cardDoc
  orderDetails,  \* per-card loop: let orderDetails
  cache,         \* const cache
  inflight,      \* requests sent whose response has not arrived
  requests,      \* every request sent so far, in order
  extractions,   \* detail URLs getOrderDetails was applied to, in order
  stdout,        \* lines printed by console.log, in order
  thrown         \* the uncaught error that ended the run, or "none"

vars == <<site, pc, walk, pageNumber, i, cardInfos, walked, allCardInfos,
          cardIdx, cardDoc, orderDetails, cache, inflight, requests,
          extractions, stdout, thrown>>

----------------------------------------------------------------------------
(* Bounds of the model *)

MaxPages == 2
MaxCardsPerPage == 2
MaxCards == 2

----------------------------------------------------------------------------
(* JavaScript values *)

NULL == <<"#null">>
UNDEFINED == <<"#undefined">>

\* a test that lets the empty string through
TruthyNotNullish(v) == v # NULL /\ v # UNDEFINED

\* if (v): a string is truthy unless it is empty; null and undefined are falsy
Truthy(v) == v # NULL /\ v # UNDEFINED /\ v # <<>>

\* a ?? b
Coalesce(a, b) == IF a = NULL \/ a = UNDEFINED THEN b ELSE a

\* String.prototype.trim over tokens: whitespace tokens are " "
RECURSIVE TrimLeft(_)
TrimLeft(s) == IF s # <<>> /\ Head(s) = " " THEN TrimLeft(Tail(s)) ELSE s

RECURSIVE TrimRight(_)
TrimRight(s) ==
  IF s # <<>> /\ s[Len(s)] = " " THEN TrimRight(SubSeq(s, 1, Len(s) - 1)) ELSE s

trim(s) == TrimRight(TrimLeft(s))

\* `${v}`: null and undefined print as words
Template(v) ==
  IF v = NULL THEN <<"null">> ELSE IF v = UNDEFINED THEN <<"undefined">> ELSE v

\* Array.prototype.join prints null and undefined as the empty string
JoinItem(v) == IF v = NULL \/ v = UNDEFINED THEN <<>> ELSE v

----------------------------------------------------------------------------
(* DOM *)

NoElem == [has |-> FALSE, text |-> <<>>]
Elem(t) == [has |-> TRUE, text |-> t]

NoLink == [has |-> FALSE, href |-> <<>>]
Link(h) == [has |-> TRUE, href |-> h]

\* element?.textContent
textContent(e) == IF e.has THEN e.text ELSE UNDEFINED

\* element?.textContent?.trim()
trimmedText(e) == IF e.has THEN trim(e.text) ELSE UNDEFINED

\* element?.href
href(l) == IF l.has THEN l.href ELSE UNDEFINED

EmptyContainer ==
  [viewLink |-> NoLink, detailUrl |-> NoLink, title |-> NoElem, value |-> NoElem,
   expiry |-> NoElem, status |-> NoElem, purchaseDate |-> NoElem,
   orderId |-> NoElem, orderTotal |-> NoElem]

EmptyDoc == [pagination |-> NoElem, cards |-> <<>>, code |-> NoElem]

\* document.querySelector(CARD_WRAPPER_SELECTOR): first container, or null
NoContainer == [found |-> FALSE, node |-> EmptyContainer]
querySelectorCard(doc) ==
  IF doc.cards = <<>> THEN NoContainer ELSE [found |-> TRUE, node |-> doc.cards[1]]

----------------------------------------------------------------------------
(* URLs and headers *)

DOMAIN_ == "https://giftoff.com"
DASHBOARD_PATH == "/dashboard"
ARCHIVED_PATH == "/dashboard/archived"

getDashboardUrl(pageNb) == <<DOMAIN_, DASHBOARD_PATH, "?page=", ToString(pageNb)>>
getArchiveUrl(pageNb) == <<DOMAIN_, ARCHIVED_PATH, "?page=", ToString(pageNb)>>

\* the urlBuilder handed to the walk-th call of fetchCardInfos
urlBuilder(w, pageNb) == IF w = 1 THEN getDashboardUrl(pageNb) ELSE getArchiveUrl(pageNb)

BASE_HEADERS ==
  { <<"accept", "text/html">>,
    <<"accept-language", "en-GB,en-US">>,
    <<"sec-ch-ua", "Chromium 88">>,
    <<"sec-fetch-dest", "document">>,
    <<"sec-fetch-mode", "navigate">>,
    <<"sec-fetch-site", "same-origin">>,
    <<"upgrade-insecure-requests", "1">> }

\* { ...a, ...b }: the keys of b override those of a
Spread(a, b) == {h \in a : \A g \in b : g[1] # h[1]} \cup b

----------------------------------------------------------------------------
(* parseInt and getLastPageNumber *)

DigitChars == <<"0", "1", "2", "3", "4", "5", "6", "7", "8", "9">>
IsDigit(c) == \E k \in 1..10 : DigitChars[k] = c
DigitVal(c) == (CHOOSE k \in 1..10 : DigitChars[k] = c) - 1

NaN == [nan |-> TRUE, val |-> 0]
Num(n) == [nan |-> FALSE, val |-> n]

\* the longest prefix of digits of s, read in base 10, after acc
RECURSIVE DigitsPrefix(_, _)
DigitsPrefix(s, acc) ==
  IF s # <<>> /\ IsDigit(Head(s))
    THEN DigitsPrefix(Tail(s), 10 * acc + DigitVal(Head(s)))
    ELSE acc

\* parseInt(string): leading whitespace, an optional sign, then digits up to
\* the first other character; NaN when no digit follows the sign
parseInt(str) ==
  LET t == TrimLeft(str)
      neg == t # <<>> /\ Head(t) = "-"
      signed == t # <<>> /\ Head(t) \in {"-", "+"}
      d == IF signed THEN Tail(t) ELSE t
  IN IF d = <<>> \/ ~IsDigit(Head(d))
       THEN NaN
       ELSE Num(IF neg THEN 0 - DigitsPrefix(d, 0) ELSE DigitsPrefix(d, 0))

\* a default of no page at all
DefaultPagesZero(n) == IF n.nan THEN 0 ELSE n.val

\* return isNaN(pageNbText) ? 1 : pageNbText
DefaultPages(n) == IF n.nan THEN 1 ELSE n.val

getLastPageNumber(document) ==
  DefaultPages(parseInt(Coalesce(textContent(document.pagination), <<>>)))

----------------------------------------------------------------------------
(* parseDate: date-fns parse under a fixed format, then toLocaleDateString *)

MonthNames == {"February", "March"}
MonthNumber(m) == IF m = "February" THEN "2" ELSE "3"
DaysInMonth(m) == IF m = "February" THEN 29 ELSE 31

DayTokens == {"05", "30"}
OrdinalTokens == {"5th", "30th"}
DayNumber(d) == IF d \in {"05", "5th"} THEN 5 ELSE 30
YearTokens == {"2024"}

FORMAT_EXPIRY == <<"MMMM", " ", "dd", ",", " ", "yyyy">>
FORMAT_PURCHASE == <<"do", " ", "MMMM", ",", " ", "yyyy">>

\* one token of the input against one token of the format
MatchesToken(tok, f) ==
  CASE f = "MMMM" -> tok \in MonthNames
    [] f = "dd"   -> tok \in DayTokens
    [] f = "do"   -> tok \in OrdinalTokens
    [] f = "yyyy" -> tok \in YearTokens
    [] OTHER      -> tok = f

InvalidDate == [valid |-> FALSE, year |-> "", month |-> "", day |-> 0]

\* parse(dateStr, formatString, referenceDate): the whole input must match the
\* format and name a day that exists; otherwise the result is Invalid Date
datefnParse(dateStr, fmt) ==
  IF Len(dateStr) # Len(fmt) \/ \E k \in 1..Len(fmt) : ~MatchesToken(dateStr[k], fmt[k])
    THEN InvalidDate
    ELSE LET at(f) == dateStr[CHOOSE k \in 1..Len(fmt) : fmt[k] = f]
             m == at("MMMM")
             d == IF \E k \in 1..Len(fmt) : fmt[k] = "dd" THEN at("dd") ELSE at("do")
         IN IF DayNumber(d) > DaysInMonth(m)
              THEN InvalidDate
              ELSE [valid |-> TRUE, year |-> at("yyyy"), month |-> MonthNumber(m),
                    day |-> DayNumber(d)]

INVALID_DATE_TEXT == <<"Invalid Date">>

\* Date.prototype.toLocaleDateString: no error for an invalid date
toLocaleDateString(date) ==
  IF date.valid
    THEN <<date.month, "/", ToString(date.day), "/", date.year>>
    ELSE INVALID_DATE_TEXT

parseDate(dateStr, stringFormat) ==
  IF Truthy(dateStr)
    THEN toLocaleDateString(datefnParse(dateStr, stringFormat))
    ELSE NULL

\* textContent?.match(/\: (.*)/)?.[1]: what follows the first ": "
matchAfterColon(text) ==
  IF text = UNDEFINED \/ ~\E k \in 1..(Len(text) - 1) : text[k] = ":" /\ text[k + 1] = " "
    THEN UNDEFINED
    ELSE LET k == CHOOSE k \in 1..(Len(text) - 1) :
                    /\ text[k] = ":" /\ text[k + 1] = " "
                    /\ \A j \in 1..(k - 1) : ~(text[j] = ":" /\ text[j + 1] = " ")
         IN SubSeq(text, k + 2, Len(text))

----------------------------------------------------------------------------
(* Field getters *)

CARD_DETAIL_GETTER(container) ==
  [purchaseDate |-> parseDate(trimmedText(container.purchaseDate), FORMAT_PURCHASE),
   status       |-> Coalesce(trimmedText(container.status), NULL),
   orderId      |-> Coalesce(trimmedText(container.orderId), NULL),
   orderTotal   |-> Coalesce(trimmedText(container.orderTotal), NULL)]

CARD_INFO_GETTER(container) ==
  [url       |-> Coalesce(href(container.viewLink), NULL),
   expiry    |-> parseDate(matchAfterColon(textContent(container.expiry)), FORMAT_EXPIRY),
   title     |-> Coalesce(trimmedText(container.title), NULL),
   value     |-> Coalesce(trimmedText(container.value), NULL),
   detailUrl |-> Coalesce(href(container.detailUrl), NULL)]

getCardInfo(container) == CARD_INFO_GETTER(container)

\* Object.entries(CARD_DETAIL_GETTER).reduce(...): an object is the sequence of
\* its <<key, value>> entries in insertion order; {} is <<>>
ORDER_DETAIL_KEYS == <<"purchaseDate", "status", "orderId", "orderTotal">>

getOrderDetails(container) ==
  [k \in 1..Len(ORDER_DETAIL_KEYS) |->
     <<ORDER_DETAIL_KEYS[k], CARD_DETAIL_GETTER(container)[ORDER_DETAIL_KEYS[k]]>>]

\* cardContainers.map(getCardInfo)
MapCardInfo(containers) == [k \in 1..Len(containers) |-> getCardInfo(containers[k])]

\* Object.values(object)
ObjectValues(object) == [k \in 1..Len(object) |-> object[k][2]]

\* array.join(';')
RECURSIVE Join(_)
Join(array) ==
  IF array = <<>> THEN <<>>
  ELSE IF Len(array) = 1 THEN JoinItem(array[1])
  ELSE JoinItem(array[1]) \o <<";">> \o Join(Tail(array))

\* `${title};${code};${value};${expiry};${Object.values(orderDetails).join(';')}`
RecordLine(title, code, value, expiry, od) ==
  Template(title) \o <<";">> \o Template(code) \o <<";">> \o Template(value)
    \o <<";">> \o Template(expiry) \o <<";">> \o Join(ObjectValues(od))

----------------------------------------------------------------------------
(* Page Fetcher *)

sessionId == "s3ss10n"

\* fetch(url, { headers: { ...BASE_HEADERS, ...extraHeaders }, method: 'GET' })
fetchPageDoc(url, extraHeaders) ==
  [url |-> url, headers |-> Spread(BASE_HEADERS, extraHeaders), method |-> "GET"]

SessionCookie(sid) == <<"cookie", "PHPSESSID=" \o sid \o ";">>

\* the same call without the cookie
fetchPageWithoutCookie(url, sid) == fetchPageDoc(url, {})

authenticatedFetchPage(url, sid) == fetchPageDoc(url, {SessionCookie(sid)})

\* parseTextToDoc(await result.text()): the document the site serves at url;
\* an address the site does not know gives a page with none of the elements
Serve(url) == IF url \in DOMAIN site THEN site[url] ELSE EmptyDoc

\* the call starts a request: it is logged and stays in flight until awaited
Send(req, role, card) ==
  /\ requests' = Append(requests, [req |-> req, role |-> role, card |-> card])
  /\ inflight' = inflight \cup {Len(requests) + 1}

\* await: the thread resumes when the one request it waits for has answered
Awaited == inflight \ {Len(requests)}

Waiting == Len(requests) \in inflight

----------------------------------------------------------------------------
(* Pagination Walker: fetchCardInfos(urlBuilder, sessionId) *)

\* for (let i = 1; ...
LoopStart == 1

\* an assignment that forgets the pages before
CollectOverwrite(infos, containers) == MapCardInfo(containers)

\* a loop that stops one page early
LoopTestExclusive(idx, n) == idx < n

\* i <= pageNumber
LoopTest(idx, n) == idx <= n

\* cardInfos = [...cardInfos, ...cardContainers.map(getCardInfo)]
Collect(infos, containers) == infos \o MapCardInfo(containers)

\* [...(await fetchCardInfos(getDashboardUrl)), ...(await fetchCardInfos(getArchiveUrl))]
Combine(results) == results[1] \o results[2]

\* const initialDashboardDoc = await authenticatedFetchPage(urlBuilder(1), sessionId)
WalkFetchFirst ==
  /\ pc = "walk_start"
  /\ Send(authenticatedFetchPage(urlBuilder(walk, 1), sessionId), "listing", 0)
  /\ pc' = "walk_await_first"
  /\ UNCHANGED <<site, walk, pageNumber, i, cardInfos, walked, allCardInfos, cardIdx,
                 cardDoc, orderDetails, cache, extractions, stdout, thrown>>

\* the first page arrives: the page count is read, the loop is set up
WalkRecvFirst ==
  /\ pc = "walk_await_first"
  /\ Waiting
  /\ inflight' = Awaited
  /\ pageNumber' = getLastPageNumber(Serve(requests[Len(requests)].req.url))
  /\ cardInfos' = <<>>
  /\ stdout' = Append(stdout, [kind |-> "log", card |-> 0,
                               line |-> <<"Max Dashboard Pages: ", ToString(pageNumber')>>])
  /\ i' = LoopStart
  /\ pc' = "walk_loop"
  /\ UNCHANGED <<site, walk, walked, allCardInfos, cardIdx, cardDoc, orderDetails,
                 cache, requests, extractions, thrown>>

\* i <= pageNumber: const dashboardPageDoc = await authenticatedFetchPage(urlBuilder(i), sessionId)
WalkFetchPage ==
  /\ pc = "walk_loop"
  /\ LoopTest(i, pageNumber)
  /\ stdout' = Append(stdout, [kind |-> "log", card |-> 0,
                               line |-> <<"Fetching Dashboard Page ", ToString(i)>>])
  /\ Send(authenticatedFetchPage(urlBuilder(walk, i), sessionId), "listing", 0)
  /\ pc' = "walk_await_page"
  /\ UNCHANGED <<site, walk, pageNumber, i, cardInfos, walked, allCardInfos, cardIdx,
                 cardDoc, orderDetails, cache, extractions, thrown>>

\* page i arrives: its containers are extracted and appended; i++
WalkRecvPage ==
  /\ pc = "walk_await_page"
  /\ Waiting
  /\ inflight' = Awaited
  /\ cardInfos' = Collect(cardInfos, Serve(requests[Len(requests)].req.url).cards)
  /\ i' = i + 1
  /\ pc' = "walk_loop"
  /\ UNCHANGED <<site, walk, pageNumber, walked, allCardInfos, cardIdx, cardDoc,
                 orderDetails, cache, requests, extractions, stdout, thrown>>

\* i > pageNumber: return cardInfos; the second return builds allCardInfos
WalkReturn ==
  /\ pc = "walk_loop"
  /\ ~LoopTest(i, pageNumber)
  /\ walked' = Append(walked, cardInfos)
  /\ IF walk = 1
       THEN /\ walk' = 2
            /\ pc' = "walk_start"
            /\ UNCHANGED <<allCardInfos, cardIdx>>
       ELSE /\ allCardInfos' = Combine(walked')
            /\ cardIdx' = 1
            /\ pc' = "card_loop"
            /\ UNCHANGED walk
  /\ UNCHANGED <<site, pageNumber, i, cardInfos, cardDoc, orderDetails, cache,
                 inflight, requests, extractions, stdout, thrown>>

----------------------------------------------------------------------------
(* Pipeline Orchestrator: for (let cardInfo of allCardInfos) *)

cardInfo == allCardInfos[cardIdx]

\* detailUrl in cache
InCache(c, detailUrl) == detailUrl \in DOMAIN c

\* a cache that is never filled
CacheStoreDropped(c, detailUrl, od) == c

\* cache[detailUrl] = { ...orderDetails }
CacheStore(c, detailUrl, od) ==
  [u \in DOMAIN c \cup {detailUrl} |-> IF u = detailUrl THEN od ELSE c[u]]

\* !(url): nothing is done for this card
CardSkip ==
  /\ pc = "card_loop"
  /\ cardIdx <= Len(allCardInfos)
  /\ ~Truthy(cardInfo.url)
  /\ cardIdx' = cardIdx + 1
  /\ UNCHANGED <<site, pc, walk, pageNumber, i, cardInfos, walked, allCardInfos,
                 cardDoc, orderDetails, cache, inflight, requests, extractions,
                 stdout, thrown>>

\* if (url): const cardDoc = await fetchPageDoc(url)
CardFetchVoucher ==
  /\ pc = "card_loop"
  /\ cardIdx <= Len(allCardInfos)
  /\ Truthy(cardInfo.url)
  /\ Send(fetchPageDoc(cardInfo.url, {}), "voucher", cardIdx)
  /\ pc' = "card_await_voucher"
  /\ UNCHANGED <<site, walk, pageNumber, i, cardInfos, walked, allCardInfos, cardIdx,
                 cardDoc, orderDetails, cache, extractions, stdout, thrown>>

\* the voucher fetch is not awaited: the loop body goes on while it is in flight
CardRecvVoucherNotAwaited ==
  /\ pc = "card_await_voucher"
  /\ cardDoc' = EmptyDoc
  /\ orderDetails' = <<>>
  /\ pc' = "card_detail"
  /\ UNCHANGED <<site, walk, pageNumber, i, cardInfos, walked, allCardInfos, cardIdx,
                 cache, inflight, requests, extractions, stdout, thrown>>

\* the voucher page arrives; let orderDetails = {}
CardRecvVoucher ==
  /\ pc = "card_await_voucher"
  /\ Waiting
  /\ inflight' = Awaited
  /\ cardDoc' = Serve(requests[Len(requests)].req.url)
  /\ orderDetails' = <<>>
  /\ pc' = "card_detail"
  /\ UNCHANGED <<site, walk, pageNumber, i, cardInfos, walked, allCardInfos, cardIdx,
                 cache, requests, extractions, stdout, thrown>>

\* !(detailUrl): the cache is not consulted
DetailBypass ==
  /\ pc = "card_detail"
  /\ ~Truthy(cardInfo.detailUrl)
  /\ pc' = "card_emit"
  /\ UNCHANGED <<site, walk, pageNumber, i, cardInfos, walked, allCardInfos, cardIdx,
                 cardDoc, orderDetails, cache, inflight, requests, extractions,
                 stdout, thrown>>

\* detailUrl in cache: orderDetails = { ...cache[detailUrl] }
DetailCacheHit ==
  /\ pc = "card_detail"
  /\ Truthy(cardInfo.detailUrl)
  /\ InCache(cache, cardInfo.detailUrl)
  /\ orderDetails' = cache[cardInfo.detailUrl]
  /\ pc' = "card_emit"
  /\ UNCHANGED <<site, walk, pageNumber, i, cardInfos, walked, allCardInfos, cardIdx,
                 cardDoc, cache, inflight, requests, extractions, stdout, thrown>>

\* else: const orderDetailsDoc = await authenticatedFetchPage(detailUrl, sessionId)
DetailFetch ==
  /\ pc = "card_detail"
  /\ Truthy(cardInfo.detailUrl)
  /\ ~InCache(cache, cardInfo.detailUrl)
  /\ Send(authenticatedFetchPage(cardInfo.detailUrl, sessionId), "detail", cardIdx)
  /\ pc' = "card_await_detail"
  /\ UNCHANGED <<site, walk, pageNumber, i, cardInfos, walked, allCardInfos, cardIdx,
                 cardDoc, orderDetails, cache, extractions, stdout, thrown>>

\* a missing container taken as a container without fields
ThrowsNever(container) == FALSE

\* getOrderDetails(null) reads a property of null: TypeError
ThrowsOnContainer(container) == ~container.found

\* the detail page arrives and has a card container: extract, store a copy
DetailRecv ==
  /\ pc = "card_await_detail"
  /\ Waiting
  /\ LET container == querySelectorCard(Serve(requests[Len(requests)].req.url))
     IN /\ ~ThrowsOnContainer(container)
        /\ orderDetails' = getOrderDetails(container.node)
        /\ extractions' = Append(extractions, cardInfo.detailUrl)
        /\ cache' = CacheStore(cache, cardInfo.detailUrl, orderDetails')
  /\ inflight' = Awaited
  /\ pc' = "card_emit"
  /\ UNCHANGED <<site, walk, pageNumber, i, cardInfos, walked, allCardInfos, cardIdx,
                 cardDoc, requests, stdout, thrown>>

\* the detail page arrives without a card container: the first getter throws,
\* nothing catches it and the run ends
DetailRecvMismatch ==
  /\ pc = "card_await_detail"
  /\ Waiting
  /\ ThrowsOnContainer(querySelectorCard(Serve(requests[Len(requests)].req.url)))
  /\ inflight' = Awaited
  /\ thrown' = "TypeError"
  /\ pc' = "aborted"
  /\ UNCHANGED <<site, walk, pageNumber, i, cardInfos, walked, allCardInfos, cardIdx,
                 cardDoc, orderDetails, cache, requests, extractions, stdout>>

\* const code = ...; console.log(...); next card
CardEmit ==
  /\ pc = "card_emit"
  /\ stdout' = Append(stdout,
       [kind |-> "record", card |-> cardIdx,
        line |-> RecordLine(cardInfo.title, textContent(cardDoc.code), cardInfo.value,
                            cardInfo.expiry, orderDetails)])
  /\ cardIdx' = cardIdx + 1
  /\ pc' = "card_loop"
  /\ UNCHANGED <<site, walk, pageNumber, i, cardInfos, walked, allCardInfos, cardDoc,
                 orderDetails, cache, inflight, requests, extractions, thrown>>

\* the loop is over: the program ends normally
Finish ==
  /\ pc = "card_loop"
  /\ cardIdx > Len(allCardInfos)
  /\ pc' = "done"
  /\ UNCHANGED <<site, walk, pageNumber, i, cardInfos, walked, allCardInfos, cardIdx,
                 cardDoc, orderDetails, cache, inflight, requests, extractions,
                 stdout, thrown>>

\* the awaited fetch rejects (network error): nothing catches it
FetchReject ==
  /\ pc \in {"walk_await_first", "walk_await_page", "card_await_voucher", "card_await_detail"}
  /\ Waiting
  /\ inflight' = Awaited
  /\ thrown' = "FetchError"
  /\ pc' = "aborted"
  /\ UNCHANGED <<site, walk, pageNumber, i, cardInfos, walked, allCardInfos, cardIdx,
                 cardDoc, orderDetails, cache, requests, extractions, stdout>>

----------------------------------------------------------------------------
(* The web site: the inputs of a run *)

VOUCHER1 == <<DOMAIN_, "/voucher/1">>
VOUCHER2 == <<DOMAIN_, "/voucher/2">>
ORDER1 == <<DOMAIN_, "/orders/123">>
ORDER2 == <<DOMAIN_, "/orders/456">>

\* what the second-to-last pagination item may be
PaginationItems ==
  { NoElem, Elem(<<>>), Elem(<<"x">>), Elem(<<"x", "2">>), Elem(<<"2", "x">>),
    Elem(<<" ", "2", " ">>), Elem(<<"0">>), Elem(<<"1">>), Elem(<<"2">>),
    Elem(<<"3">>), Elem(<<"-", "1">>) }

EXPIRY_GOOD == <<"Expires", ":", " ", "March", " ", "05", ",", " ", "2024">>
EXPIRY_SLASHES == <<"Expires", ":", " ", "05", "/", "03", "/", "2024">>
EXPIRY_NO_SUCH_DAY == <<"Expires", ":", " ", "February", " ", "30", ",", " ", "2024">>
EXPIRY_NO_COLON == <<"March", " ", "05", ",", " ", "2024">>

PURCHASE_GOOD == <<" ", "5th", " ", "March", ",", " ", "2024", " ">>
PURCHASE_BAD == <<"2024", "-", "03", "-", "05">>

Card(title, view, detail, expiry) ==
  [EmptyContainer EXCEPT !.title = Elem(<<" ", title, " ">>), !.value = Elem(<<"10 GBP">>),
                         !.viewLink = view, !.detailUrl = detail, !.expiry = expiry]

\* the card containers a listing page may hold
CardPalette ==
  { Card("Amazon", Link(VOUCHER1), Link(ORDER1), Elem(EXPIRY_GOOD)),
    Card("Steam", Link(VOUCHER2), Link(ORDER1), Elem(EXPIRY_NO_COLON)),
    Card("Steam", Link(VOUCHER2), Link(ORDER2), Elem(EXPIRY_SLASHES)),
    Card("Tesco", Link(VOUCHER1), NoLink, Elem(EXPIRY_NO_SUCH_DAY)),
    Card("Tesco", Link(VOUCHER1), Link(<<>>), NoElem),
    Card("Argos", NoLink, Link(ORDER1), Elem(EXPIRY_GOOD)),
    Card("Argos", Link(<<>>), Link(ORDER2), NoElem) }

\* the k-th container of page p of listing w, in the runs that vary the paging
WalkCard(w, p, k) ==
  Card("Card " \o ToString(w) \o "/" \o ToString(p) \o "/" \o ToString(k),
       Link(VOUCHER1), Link(ORDER1), Elem(EXPIRY_GOOD))

OrderContainer(purchase) ==
  [EmptyContainer EXCEPT !.status = Elem(<<"Complete">>), !.purchaseDate = purchase,
                         !.orderId = Elem(<<" ", "GO-123", " ">>),
                         !.orderTotal = Elem(<<"20 GBP">>)]

DetailDoc(containers) == [pagination |-> NoElem, cards |-> containers, code |-> NoElem]

\* what an order-detail page may be
Order1Docs ==
  { DetailDoc(<<OrderContainer(Elem(PURCHASE_GOOD))>>),
    DetailDoc(<<OrderContainer(Elem(PURCHASE_BAD))>>),
    DetailDoc(<<OrderContainer(NoElem)>>) }

Order2Docs == { DetailDoc(<<OrderContainer(Elem(PURCHASE_GOOD))>>), DetailDoc(<<>>) }

SeqsUpTo(S, n) == UNION {[1..m -> S] : m \in 0..n}

\* the site with these pagination items, listing pages and order pages
SiteOf(items, pages, orders) ==
  [u \in {urlBuilder(w, p) : w \in 1..2, p \in 1..MaxPages}
           \cup {VOUCHER1, VOUCHER2, ORDER1, ORDER2} |->
     IF \E w \in 1..2, p \in 1..MaxPages : u = urlBuilder(w, p)
       THEN LET wp == CHOOSE wp \in (1..2) \X (1..MaxPages) : u = urlBuilder(wp[1], wp[2])
            IN [pagination |-> items[wp[1]], cards |-> pages[wp[1]][wp[2]], code |-> NoElem]
     ELSE IF u = VOUCHER1 THEN [EmptyDoc EXCEPT !.code = Elem(<<"ABCD-1234">>)]
     ELSE IF u = VOUCHER2 THEN EmptyDoc
     ELSE IF u = ORDER1 THEN orders[1]
     ELSE orders[2]]

\* runs that vary the paging: any pagination item on both listings, each
\* dashboard page empty or full, one container on each archived page
WalkSites ==
  { SiteOf(<<t1, t2>>,
           << [p \in 1..MaxPages |-> [k \in 1..n[p] |-> WalkCard(1, p, k)]],
              [p \in 1..MaxPages |-> <<WalkCard(2, p, 1)>>] >>,
           << DetailDoc(<<OrderContainer(Elem(PURCHASE_GOOD))>>), DetailDoc(<<>>) >>) :
      t1 \in PaginationItems, t2 \in PaginationItems,
      n \in [1..MaxPages -> {0, MaxCardsPerPage}] }

\* runs that vary the cards: one page per listing, at most MaxCards containers
\* over the two first pages (at most one of them archived), any order-detail pages
CardSites ==
  { SiteOf(<<NoElem, NoElem>>,
           << [p \in 1..MaxPages |-> IF p = 1 THEN c[1] ELSE <<>>],
              [p \in 1..MaxPages |-> IF p = 1 THEN c[2] ELSE <<>>] >>,
           <<o1, o2>>) :
      c \in {d \in SeqsUpTo(CardPalette, MaxCards) \X SeqsUpTo(CardPalette, 1) :
               Len(d[1]) + Len(d[2]) <= MaxCards},
      o1 \in Order1Docs, o2 \in Order2Docs }

----------------------------------------------------------------------------
(* The program *)

Init ==
  /\ site \in WalkSites \cup CardSites
  /\ pc = "walk_start"
  /\ walk = 1
  /\ pageNumber = 0
  /\ i = 0
  /\ cardInfos = <<>>
  /\ walked = <<>>
  /\ allCardInfos = <<>>
  /\ cardIdx = 0
  /\ cardDoc = EmptyDoc
  /\ orderDetails = <<>>
  /\ cache = <<>>
  /\ inflight = {}
  /\ requests = <<>>
  /\ extractions = <<>>
  /\ stdout = <<>>
  /\ thrown = "none"

Next ==
  \/ WalkFetchFirst
  \/ WalkRecvFirst
  \/ WalkFetchPage
  \/ WalkRecvPage
  \/ WalkReturn
  \/ CardSkip
  \/ CardFetchVoucher
  \/ CardRecvVoucher
  \/ DetailBypass
  \/ DetailCacheHit
  \/ DetailFetch
  \/ DetailRecv
  \/ DetailRecvMismatch
  \/ CardEmit
  \/ Finish
  \/ FetchReject

Spec == Init /\ [][Next]_vars

----------------------------------------------------------------------------
(* Observations used by the properties *)

Idx(n) == [k \in 1..n |-> k]

\* the record lines printed so far
Records == SelectSeq(stdout, LAMBDA e : e.kind = "record")

\* the card each record line was printed for
RecordCards == [k \in 1..Len(Records) |-> Records[k].card]

Count(seq, Test(_)) == Len(SelectSeq(seq, Test))

IsPrefix(a, b) == Len(a) <= Len(b) /\ a = SubSeq(b, 1, Len(a))

HasCookie(r) == \E h \in r.req.headers : h[1] = "cookie"

\* a card loop position: the card at cardIdx has gone through the detail step
PastDetail(k) == k < cardIdx \/ (k = cardIdx /\ pc = "card_emit")

\* request k got its response (it is not in flight and was not rejected)
Answered(k) == k \notin inflight /\ ~(thrown = "FetchError" /\ k = Len(requests))

\* a usable address: neither null nor the empty string
Usable(u) == u # NULL /\ u # <<>>

\* the requests sent to the pages of listing w, as addresses in order
ListingRequests(w) ==
  LET sel == SelectSeq(requests, LAMBDA r :
                 Len(r.req.url) = 4
                   /\ r.req.url[2] = (IF w = 1 THEN DASHBOARD_PATH ELSE ARCHIVED_PATH))
  IN [k \in 1..Len(sel) |-> sel[k].req.url]

\* the second-to-last pagination item of the first page of listing w
FirstPageItem(w) == Serve(urlBuilder(w, 1)).pagination

\* the card summaries of pages 1..n of listing w, page by page
RECURSIVE PagesInOrder(_, _)
PagesInOrder(w, n) ==
  IF n < 1 THEN <<>>
  ELSE PagesInOrder(w, n - 1)
         \o [k \in 1..Len(Serve(urlBuilder(w, n)).cards) |->
               getCardInfo(Serve(urlBuilder(w, n)).cards[k])]

----------------------------------------------------------------------------
(* C1: over a run, the order-detail page of a detailUrl shared by several    *)
(* cards is fetched (with the session cookie) and extracted exactly once:    *)
(* the first card that reaches the detail step fetches and caches it, every  *)
(* later card with that detailUrl is served from the cache without a fetch,  *)
(* and the records of these cards carry the same order-detail fields.        *)

DetailFetches(u) == Count(requests, LAMBDA r : r.role = "detail" /\ r.req.url = u)
Extractions(u) == Count(extractions, LAMBDA e : e = u)

----------------------------------------------------------------------------
(* C2 as stated: in a run that ends without a failed fetch, the cards with a *)
(* non-null url are exactly the cards that get a record, in traversal order  *)
(* (a card whose url is the empty string included).                          *)

C2_NonNullUrlGetsRecord ==
  (pc = "done" /\ thrown = "none") =>
    RecordCards = SelectSeq(Idx(Len(allCardInfos)), LAMBDA k : allCardInfos[k].url # NULL)

(* C2 amended: the cards that get a record are exactly the cards whose url   *)
(* is neither null nor the empty string, one record each, in traversal       *)
(* order; at every moment this holds of the cards already gone through, and  *)
(* of all cards when the run ends normally.                                  *)

C2_UsableUrlGetsRecord ==
  /\ RecordCards = SelectSeq(Idx(cardIdx - 1), LAMBDA k : Usable(allCardInfos[k].url))
  /\ \A k \in 1..Len(Records) :
       SubSeq(Records[k].line, 1, 1) = Template(allCardInfos[Records[k].card].title)
  /\ pc = "done" => cardIdx = Len(allCardInfos) + 1

C2_Witness ==
  /\ pc = "done"
  /\ \E a, b \in 1..Len(allCardInfos) :
       /\ allCardInfos[a].url = <<>>
       /\ Usable(allCardInfos[b].url)
       /\ RecordCards = <<b>>

----------------------------------------------------------------------------
(* C3: every request for a dashboard, archived or order-detail page carries  *)
(* the cookie header PHPSESSID=<sessionId>; and no request for a voucher     *)
(* page carries a cookie header.                                             *)

C3_CookieOnlyWhenAuthenticated ==
  \A k \in 1..Len(requests) :
    LET r == requests[k]
    IN /\ (r.role \in {"listing", "detail"} \/ r.req.url \in {ORDER1, ORDER2}
             \/ (Len(r.req.url) = 4 /\ r.req.url[2] \in {DASHBOARD_PATH, ARCHIVED_PATH}))
            => <<"cookie", "PHPSESSID=" \o sessionId \o ";">> \in r.req.headers
       /\ (r.role = "voucher" \/ r.req.url \in {VOUCHER1, VOUCHER2}) => ~HasCookie(r)
       /\ BASE_HEADERS \subseteq r.req.headers

C3_Witness ==
  /\ pc = "done"
  /\ \E a, b, c, d \in 1..Len(requests) :
       /\ requests[a].req.url = getDashboardUrl(1)
       /\ requests[b].req.url = getArchiveUrl(1)
       /\ requests[c].role = "voucher"
       /\ requests[d].role = "detail"

----------------------------------------------------------------------------
(* C4: a walk returns one card summary per container of pages 1..totalPages, *)
(* in ascending page order and in document order within a page; the          *)
(* orchestrator's list is the dashboard walk followed by the archived walk,  *)
(* nothing removed.                                                          *)

C4_WalkOrder ==
  /\ \A w \in 1..Len(walked) :
       walked[w] = PagesInOrder(w, getLastPageNumber(Serve(urlBuilder(w, 1))))
  /\ pc \in {"walk_loop", "walk_await_page"} => cardInfos = PagesInOrder(walk, i - 1)
  /\ Len(walked) = 2 =>
       /\ Len(allCardInfos) = Len(walked[1]) + Len(walked[2])
       /\ SubSeq(allCardInfos, 1, Len(walked[1])) = walked[1]
       /\ SubSeq(allCardInfos, Len(walked[1]) + 1, Len(allCardInfos)) = walked[2]

\* two pages of two containers each, page count "2": four summaries
C4_Witness ==
  /\ Len(walked) = 2
  /\ FirstPageItem(1) = Elem(<<"2">>)
  /\ [k \in 1..Len(walked[1]) |-> walked[1][k].title] =
       << <<"Card 1/1/1">>, <<"Card 1/1/2">>, <<"Card 1/2/1">>, <<"Card 1/2/2">> >>
  /\ Len(allCardInfos) > 4

----------------------------------------------------------------------------
(* C5: when the second-to-last pagination item is absent, or its text does   *)
(* not start (after blanks and a sign) with a digit, the page count is 1 and *)
(* exactly page 1 is walked.                                                 *)

NoParsableInteger(item) ==
  \/ ~item.has
  \/ LET t == TrimLeft(item.text)
         d == IF t # <<>> /\ Head(t) \in {"-", "+"} THEN Tail(t) ELSE t
     IN d = <<>> \/ ~IsDigit(Head(d))

C5_DefaultOnePage ==
  /\ (pc \in {"walk_loop", "walk_await_page"} /\ NoParsableInteger(FirstPageItem(walk)))
       => pageNumber = 1
  /\ \A w \in 1..Len(walked) :
       NoParsableInteger(FirstPageItem(w)) =>
         /\ ListingRequests(w) = <<urlBuilder(w, 1), urlBuilder(w, 1)>>
         /\ walked[w] = PagesInOrder(w, 1)

C5_Witness ==
  /\ Len(walked) = 2
  /\ FirstPageItem(1) = Elem(<<"x", "2">>)
  /\ ~FirstPageItem(2).has
  /\ Len(walked[1]) = MaxCardsPerPage
  /\ Len(walked[2]) = 1

----------------------------------------------------------------------------
(* C6 as stated: a date text that does not match its format ends the run,    *)
(* so no printed line carries a value made from it.                          *)

C6_NoRecordFromMalformedDate ==
  \A k \in 1..Len(stdout) :
    \A j \in 1..Len(stdout[k].line) : stdout[k].line[j] # "Invalid Date"

----------------------------------------------------------------------------
(* C7: an order-detail page without a card container ends the run at that   *)
(* card: no record for that card or a later one, no cache entry for that     *)
(* detailUrl, no further request.                                            *)

C7_MismatchAborts ==
  /\ \A k \in 1..Len(requests) :
       (requests[k].role = "detail" /\ Answered(k)
          /\ Serve(requests[k].req.url).cards = <<>>)
         => /\ thrown = "TypeError"
            /\ k = Len(requests)
  /\ thrown = "TypeError" =>
       /\ pc = "aborted"
       /\ inflight = {}
       /\ requests[Len(requests)].role = "detail"
       /\ requests[Len(requests)].card = cardIdx
       /\ requests[Len(requests)].req.url = allCardInfos[cardIdx].detailUrl
       /\ allCardInfos[cardIdx].detailUrl \notin DOMAIN cache
       /\ \A k \in 1..Len(Records) : Records[k].card < cardIdx
       /\ Extractions(allCardInfos[cardIdx].detailUrl) = 0

C7_Witness ==
  /\ thrown = "TypeError"
  /\ cardIdx < Len(allCardInfos)
  /\ Usable(allCardInfos[cardIdx + 1].url)

----------------------------------------------------------------------------
(* C8: at most one request is outstanding at any moment; the requests of a   *)
(* card (voucher page, then order-detail page on a cache miss) are sent, and *)
(* its record printed, before any request of a later card is sent.           *)

C8_Sequential ==
  /\ Cardinality(inflight) <= 1
  /\ inflight # {} =>
       /\ inflight = {Len(requests)}
       /\ pc \in {"walk_await_first", "walk_await_page", "card_await_voucher",
                  "card_await_detail"}
  /\ \A a, b \in 1..Len(requests) :
       a < b =>
         /\ requests[a].card <= requests[b].card
         /\ (requests[a].card = requests[b].card /\ requests[b].card > 0) =>
              (requests[a].role = "voucher" /\ requests[b].role = "detail")
  /\ \A b \in 1..Len(requests) :
       \A k \in 1..(requests[b].card - 1) :
         Usable(allCardInfos[k].url) => \E r \in 1..Len(Records) : Records[r].card = k
  /\ \A r \in 1..Len(Records) :
       \E a \in 1..Len(requests) :
         /\ requests[a].card = Records[r].card
         /\ requests[a].role = "voucher"
         /\ a \notin inflight

C8_Witness ==
  /\ pc = "card_await_detail"
  /\ inflight = {Len(requests)}
  /\ requests[Len(requests)].card = 2
  /\ Len(Records) = 1

----------------------------------------------------------------------------
(* C9: a walk over a listing of N >= 1 pages requests urlBuilder(1), then    *)
(* urlBuilder(1), ..., urlBuilder(N) in ascending order: N + 1 requests,     *)
(* page 1 twice and every other page once.                                   *)

ExpectedListingRequests(w, n) == <<urlBuilder(w, 1)>> \o [p \in 1..n |-> urlBuilder(w, p)]

C9_ListingRequests ==
  \A w \in 1..2 :
    LET n == getLastPageNumber(Serve(urlBuilder(w, 1)))
    IN n >= 1 =>
         /\ IsPrefix(ListingRequests(w), ExpectedListingRequests(w, n))
         /\ w <= Len(walked) =>
              /\ ListingRequests(w) = ExpectedListingRequests(w, n)
              /\ Len(ListingRequests(w)) = n + 1

C9_Witness ==
  /\ Len(walked) = 2
  /\ ListingRequests(1) = <<getDashboardUrl(1), getDashboardUrl(1), getDashboardUrl(2),
                            getDashboardUrl(3)>>
  /\ ListingRequests(2) = <<getArchiveUrl(1), getArchiveUrl(1)>>

----------------------------------------------------------------------------
(* C10 as stated: whatever the pagination item holds, the page count is at   *)
(* least 1 and the containers of page 1 are part of the walk's result.       *)

C10_AtLeastOnePage ==
  /\ pc \in {"walk_loop", "walk_await_page"} => pageNumber >= 1
  /\ \A w \in 1..Len(walked) : IsPrefix(PagesInOrder(w, 1), walked[w])

====
